---- MODULE Spec2Model ----
(***************************************************************************)
(* markdown-tts: sentence segmentation, offset tracking, span annotation   *)
(* and the synchronization of highlights with word-boundary events.        *)
(*                                                                         *)
(* Strings are sequences of one-character strings.  Offsets are 0-based as *)
(* in the Python source; Slice(s, a, b) is the Python slice s[a:b].        *)
(***************************************************************************)
EXTENDS Integers, Sequences, FiniteSets, TLC

\* ------------------------------------------------------------------ bounds
\* longest plain text / markdown source explored
MaxLen == 4

\* ------------------------------------------------------- character classes
\* characters the explored plain texts are made of
Alphabet == {"a", " ", "."}

\* str.isspace() / regex \s, restricted to the alphabet
Whitespace == {" ", "\n"}

\* the character class [.!?] of SENTENCE_END_PATTERN
Terminators == {".", "!", "?"}

isspace(c) == c \in Whitespace

\* all strings over a character set up to a length
StringsUpTo(chars, n) == UNION {[1..k -> chars] : k \in 0..n}

Texts == StringsUpTo(Alphabet, MaxLen)

\* characters of the explored markdown sources: plain prose and line breaks,
\* no markup characters
MarkdownAlphabet == Alphabet \cup {"\n"}

Markdowns == StringsUpTo(MarkdownAlphabet, MaxLen)

\* lengths reported by word-boundary events
Lengths == 1..2

\* offsets and indices handed to the tracker's operations
Offsets == -1..(MaxLen + 1)

\* ---------------------------------------------------------- Python helpers
Max(a, b) == IF a >= b THEN a ELSE b
Min(a, b) == IF a <= b THEN a ELSE b

\* s[a:b] for a >= 0 (out-of-range bounds are clamped, as Python does)
Slice(s, a, b) ==
  LET lo == Min(Max(a, 0), Len(s))
      hi == Min(Max(b, 0), Len(s))
  IN  IF lo >= hi THEN <<>> ELSE SubSeq(s, lo + 1, hi)

RECURSIVE lstrip(_)
lstrip(s) == IF s # <<>> /\ isspace(Head(s)) THEN lstrip(Tail(s)) ELSE s

RECURSIVE rstrip(_)
rstrip(s) ==
  IF s # <<>> /\ isspace(s[Len(s)]) THEN rstrip(SubSeq(s, 1, Len(s) - 1)) ELSE s

\* str.strip() left out
strip_missing(s) == s

\* str.strip()
strip(s) == rstrip(lstrip(s))

\* len(s.split()): scan the string, counting each token when it starts
RECURSIVE split_count(_, _)
split_count(s, in_token) ==
  IF s = <<>> THEN 0
  ELSE IF isspace(Head(s)) THEN split_count(Tail(s), FALSE)
  ELSE (IF in_token THEN 0 ELSE 1) + split_count(Tail(s), TRUE)

\* the match of [.!?] (one character, the + left out) that starts at pos
match_end_single(text, pos) == pos + 1

\* end of the greedy match of [.!?]+ that starts at pos
RECURSIVE match_end(_, _)
match_end(text, pos) ==
  IF pos < Len(text) /\ text[pos + 1] \in Terminators
  THEN match_end(text, pos + 1) ELSE pos

\* SENTENCE_END_PATTERN.finditer(text): the matches from pos on, in order
RECURSIVE finditer(_, _)
finditer(text, pos) ==
  IF pos >= Len(text) THEN <<>>
  ELSE IF text[pos + 1] \in Terminators
       THEN <<[start |-> pos, end |-> match_end(text, pos)]>>
              \o finditer(text, match_end(text, pos))
       ELSE finditer(text, pos + 1)

\* the whitespace-skipping loop left out
skip_whitespace_missing(text, actual_start) == actual_start

\* the loop "while actual_start < len(text) and text[actual_start].isspace()"
RECURSIVE skip_whitespace(_, _)
skip_whitespace(text, actual_start) ==
  IF actual_start < Len(text) /\ isspace(text[actual_start + 1])
  THEN skip_whitespace(text, actual_start + 1) ELSE actual_start

\* ------------------------------------------------------- Sentence Segmenter
Sentence(t, s, e, i) == [text |-> t, start |-> s, end |-> e, index |-> i]

\* "current_start = end_pos": where the search for the next sentence resumes
next_start_stale(current_start, end_pos) == current_start
next_start(current_start, end_pos) == end_pos

\* "index=len(sentences)": the index given to the sentence being appended
new_index_one_based(acc) == Len(acc) + 1
new_index(acc) == Len(acc)

\* the body of the for loop over the matches, then the trailing remainder
RECURSIVE split_loop(_, _, _, _)
split_loop(text, matches, current_start, acc) ==
  IF matches = <<>>
  THEN LET remaining == strip(Slice(text, current_start, Len(text)))
       IN  IF remaining # <<>>
           THEN Append(acc, Sentence(remaining,
                                     skip_whitespace(text, current_start),
                                     Len(text), new_index(acc)))
           ELSE acc
  ELSE LET end_pos == Head(matches).end
           sentence_text == strip(Slice(text, current_start, end_pos))
       IN  split_loop(text, Tail(matches), next_start(current_start, end_pos),
                      IF sentence_text # <<>>
                      THEN Append(acc, Sentence(sentence_text,
                                                skip_whitespace(text, current_start),
                                                end_pos, new_index(acc)))
                      ELSE acc)

\* TTSHighlighter._split_sentences: the sentence table of a text
split_sentences(text) ==
  IF text = <<>> THEN <<>> ELSE split_loop(text, finditer(text, 0), 0, <<>>)

\* ----------------------------------------------------------- Offset Tracker
NOT_FOUND == -1

\* Python's None
None == [none |-> TRUE]

\* the loop of get_sentence_for_offset taking a sentence's end as inside it
RECURSIVE scan_sentences_inclusive(_, _, _)
scan_sentences_inclusive(sents, k, char_offset) ==
  IF k > Len(sents) THEN NOT_FOUND
  ELSE IF sents[k].start <= char_offset /\ char_offset <= sents[k].end
       THEN sents[k].index
       ELSE scan_sentences_inclusive(sents, k + 1, char_offset)

\* the for loop of get_sentence_for_offset: first containing sentence from k on
RECURSIVE scan_sentences(_, _, _)
scan_sentences(sents, k, char_offset) ==
  IF k > Len(sents) THEN NOT_FOUND
  ELSE IF sents[k].start <= char_offset /\ char_offset < sents[k].end
       THEN sents[k].index
       ELSE scan_sentences(sents, k + 1, char_offset)

\* get_sentence_for_offset without the end-of-text fallback
get_sentence_for_offset_no_fallback(txt, sents, char_offset) ==
  IF sents = <<>> THEN NOT_FOUND ELSE scan_sentences(sents, 1, char_offset)

get_sentence_for_offset(txt, sents, char_offset) ==
  IF sents = <<>> THEN NOT_FOUND
  ELSE IF scan_sentences(sents, 1, char_offset) # NOT_FOUND
       THEN scan_sentences(sents, 1, char_offset)
       ELSE IF char_offset >= Len(txt) /\ sents # <<>>
            THEN sents[Len(sents)].index
            ELSE NOT_FOUND

\* get_word_offset counting the words before end instead of before start
get_word_offset_to_end(txt, start, end) ==
  IF start <= 0 THEN 0 ELSE split_count(Slice(txt, 0, end), FALSE)

get_word_offset(txt, start, end) ==
  IF start <= 0 THEN 0 ELSE split_count(Slice(txt, 0, start), FALSE)

get_sentence_by_index(sents, idx) ==
  IF 0 <= idx /\ idx < Len(sents) THEN sents[idx + 1] ELSE None

\* get_text_from_sentence slicing from the start of the whole text
get_text_from_sentence_whole(txt, sents, sentence_idx) ==
  IF get_sentence_by_index(sents, sentence_idx) = None THEN <<>> ELSE txt

get_text_from_sentence(txt, sents, sentence_idx) ==
  IF get_sentence_by_index(sents, sentence_idx) = None THEN <<>>
  ELSE Slice(txt, get_sentence_by_index(sents, sentence_idx).start, Len(txt))

\* the sentences property handing out the tracker's own list
sentences_shared(sents) == [list |-> sents, shared |-> TRUE]

\* the sentences property: a new list holding the same Sentence objects;
\* shared tells whether the returned list is the tracker's own list object
sentences_copy(sents) == [list |-> sents, shared |-> FALSE]

\* update_position without the clamp
update_position_unclamped(char_offset) == char_offset

\* the value update_position stores
update_position(char_offset) == Max(0, char_offset)

\* ------------------------------------------------------ Text-Span Annotator
\* The annotated document is a sequence of tokens: "tag" and "text" tokens
\* carry characters of the input in s; "sentence" and "word" are the opening
\* tags of the inserted spans, whose data-sentence / data-word value is n;
\* "close" is an inserted </span>.
Token(k, s, n) == [k |-> k, s |-> s, n |-> n]

\* offset of the first ">" at or after pos, len(html) when there is none
RECURSIVE find_gt(_, _)
find_gt(html, pos) ==
  IF pos >= Len(html) \/ html[pos + 1] = ">" THEN pos ELSE find_gt(html, pos + 1)

\* tag_pattern.split(html) for the pattern (<[^>]+>): the text before each
\* match, the match, ..., and the text after the last match
RECURSIVE tag_split(_, _, _)
tag_split(html, text_start, pos) ==
  IF pos >= Len(html) THEN <<Slice(html, text_start, Len(html))>>
  ELSE IF /\ html[pos + 1] = "<"
          /\ find_gt(html, pos + 1) < Len(html)
          /\ find_gt(html, pos + 1) > pos + 1
       THEN <<Slice(html, text_start, pos),
              Slice(html, pos, find_gt(html, pos + 1) + 1)>>
              \o tag_split(html, find_gt(html, pos + 1) + 1,
                           find_gt(html, pos + 1) + 1)
       ELSE tag_split(html, text_start, pos + 1)

\* offset of the first terminator at or after pos, len(s) when there is none
RECURSIVE find_terminator(_, _)
find_terminator(s, pos) ==
  IF pos >= Len(s) \/ s[pos + 1] \in Terminators THEN pos
  ELSE find_terminator(s, pos + 1)

\* end of the run of terminators that starts at pos
RECURSIVE terminators_end(_, _)
terminators_end(s, pos) ==
  IF pos < Len(s) /\ s[pos + 1] \in Terminators
  THEN terminators_end(s, pos + 1) ELSE pos

\* end of the run of whitespace that starts at pos
RECURSIVE whitespace_end(_, _)
whitespace_end(s, pos) ==
  IF pos < Len(s) /\ isspace(s[pos + 1]) THEN whitespace_end(s, pos + 1) ELSE pos

\* end of the run of non-whitespace that starts at pos
RECURSIVE word_end(_, _)
word_end(s, pos) ==
  IF pos < Len(s) /\ ~isspace(s[pos + 1]) THEN word_end(s, pos + 1) ELSE pos

\* end of the last match of sentence_pattern ([^.!?]*[.!?]+\s*) from pos on
RECURSIVE sentence_matches_end(_, _)
sentence_matches_end(s, pos) ==
  IF find_terminator(s, pos) >= Len(s) THEN pos
  ELSE sentence_matches_end(
         s, whitespace_end(s, terminators_end(s, find_terminator(s, pos))))

\* sentence_pattern.findall(s) from pos on
RECURSIVE sentence_findall(_, _)
sentence_findall(s, pos) ==
  IF find_terminator(s, pos) >= Len(s) THEN <<>>
  ELSE <<Slice(s, pos,
               whitespace_end(s, terminators_end(s, find_terminator(s, pos))))>>
         \o sentence_findall(
              s, whitespace_end(s, terminators_end(s, find_terminator(s, pos))))

\* the list "sentences" of _process_text_node
text_node_sentences(s) ==
  LET found == sentence_findall(s, 0)
      remaining == Slice(s, sentence_matches_end(s, 0), Len(s))
      with_rest == IF strip(remaining) # <<>> THEN Append(found, remaining)
                   ELSE found
  IN  IF with_rest = <<>> THEN <<s>> ELSE with_rest

\* re.findall(r'(\S+)(\s*)', sentence) from pos on: the (word, space) pairs
RECURSIVE words_findall(_, _)
words_findall(s, pos) ==
  IF whitespace_end(s, pos) >= Len(s) THEN <<>>
  ELSE LET w == whitespace_end(s, pos)
           e == word_end(s, w)
           f == whitespace_end(s, e)
       IN  <<[word |-> Slice(s, w, e), space |-> Slice(s, e, f)]>>
             \o words_findall(s, f)

\* the word spans of one sentence, the counter advancing after each word
RECURSIVE word_spans(_, _)
word_spans(words, word_offset) ==
  IF words = <<>> THEN [out |-> <<>>, word_offset |-> word_offset]
  ELSE LET rest == word_spans(Tail(words),
                              word_offset + Len(Head(words).word)
                                          + Len(Head(words).space))
           space == IF Head(words).space = <<>> THEN <<>>
                    ELSE <<Token("text", Head(words).space, 0)>>
       IN  [out |-> <<Token("word", <<>>, word_offset),
                      Token("text", Head(words).word, 0),
                      Token("close", <<>>, 0)>> \o space \o rest.out,
            word_offset |-> rest.word_offset]

\* the loop of _process_text_node over the sentences of one text node
RECURSIVE process_sentences(_, _, _)
process_sentences(sents, sentence_index, word_offset) ==
  IF sents = <<>>
  THEN [out |-> <<>>, sentence_index |-> sentence_index,
        word_offset |-> word_offset]
  ELSE IF strip(Head(sents)) = <<>>
       THEN LET rest == process_sentences(Tail(sents), sentence_index, word_offset)
            IN  [rest EXCEPT !.out = <<Token("text", Head(sents), 0)>> \o rest.out]
       ELSE LET spans == word_spans(words_findall(Head(sents), 0), word_offset)
                rest == process_sentences(Tail(sents), sentence_index + 1,
                                          spans.word_offset)
            IN  [rest EXCEPT !.out = <<Token("sentence", <<>>, sentence_index)>>
                                       \o spans.out
                                       \o <<Token("close", <<>>, 0)>>
                                       \o rest.out]

\* _process_text_node numbering the markers of every text node from 0
process_text_node_restart(s, sentence_index, word_offset) ==
  IF strip(s) = <<>>
  THEN [out |-> IF s = <<>> THEN <<>> ELSE <<Token("text", s, 0)>>,
        sentence_index |-> sentence_index, word_offset |-> word_offset]
  ELSE process_sentences(text_node_sentences(s), 0, 0)

\* MarkdownRenderer._process_text_node
process_text_node(s, sentence_index, word_offset) ==
  IF strip(s) = <<>>
  THEN [out |-> IF s = <<>> THEN <<>> ELSE <<Token("text", s, 0)>>,
        sentence_index |-> sentence_index, word_offset |-> word_offset]
  ELSE process_sentences(text_node_sentences(s), sentence_index, word_offset)

\* the loop of _add_tts_spans over the parts
RECURSIVE add_spans_loop(_, _, _)
add_spans_loop(parts, sentence_index, word_offset) ==
  IF parts = <<>> THEN <<>>
  ELSE IF Head(parts) # <<>> /\ Head(Head(parts)) = "<"
       THEN <<Token("tag", Head(parts), 0)>>
              \o add_spans_loop(Tail(parts), sentence_index, word_offset)
       ELSE LET node == process_text_node(Head(parts), sentence_index, word_offset)
            IN  node.out \o add_spans_loop(Tail(parts), node.sentence_index,
                                           node.word_offset)

\* MarkdownRenderer._add_tts_spans
add_tts_spans(html) == add_spans_loop(tag_split(html, 0, 0), 0, 0)

\* ------------------------------------------------- markdown to HTML, text
\* source.split("\n"), line holding the characters of the current line
RECURSIVE split_lines(_, _)
split_lines(s, line) ==
  IF s = <<>> THEN <<line>>
  ELSE IF Head(s) = "\n" THEN <<line>> \o split_lines(Tail(s), <<>>)
  ELSE split_lines(Tail(s), Append(line, Head(s)))

\* the paragraphs of a source: maximal groups of consecutive lines that are
\* not blank; block holds the lines of the paragraph being collected
RECURSIVE paragraphs(_, _)
paragraphs(lines, block) ==
  IF lines = <<>> THEN (IF block = <<>> THEN <<>> ELSE <<block>>)
  ELSE IF strip(Head(lines)) = <<>>
       THEN (IF block = <<>> THEN <<>> ELSE <<block>>)
              \o paragraphs(Tail(lines), <<>>)
       ELSE paragraphs(Tail(lines), Append(block, Head(lines)))

P_OPEN == <<"<", "p", ">">>
P_CLOSE == <<"<", "/", "p", ">">>
BR == <<"<", "b", "r", " ", "/", ">">>

\* a line that is followed by another line of its paragraph: two or more
\* trailing spaces belong to the line break and are dropped
before_break(line) ==
  IF Len(line) >= 2 /\ line[Len(line)] = " " /\ line[Len(line) - 1] = " "
  THEN rstrip(line) ELSE line

\* the lines of one paragraph, a <br /> and a newline for each line break
\* (the nl2br extension)
RECURSIVE render_lines(_)
render_lines(lines) ==
  IF Len(lines) = 1 THEN Head(lines)
  ELSE before_break(Head(lines)) \o BR \o <<"\n">> \o render_lines(Tail(lines))

\* one paragraph: its text without surrounding whitespace, inside <p>
render_paragraph(lines) ==
  LET left == [lines EXCEPT ![1] = lstrip(@)]
      stripped == [left EXCEPT ![Len(lines)] = rstrip(@)]
  IN  P_OPEN \o render_lines(stripped) \o P_CLOSE

RECURSIVE render_paragraphs(_)
render_paragraphs(blocks) ==
  IF blocks = <<>> THEN <<>>
  ELSE IF Len(blocks) = 1 THEN render_paragraph(Head(blocks))
  ELSE render_paragraph(Head(blocks)) \o <<"\n">> \o render_paragraphs(Tail(blocks))

\* self._md.convert(markdown_text) for a source without markup characters:
\* blank lines separate paragraphs, every other line break becomes <br />
md_convert(markdown_text) ==
  render_paragraphs(paragraphs(split_lines(markdown_text, <<>>), <<>>))

\* a source line indented by four spaces would be a code block
IsProse(markdown_text) ==
  \A k \in 1..Len(split_lines(markdown_text, <<>>)) :
    LET line == split_lines(markdown_text, <<>>)[k]
    IN  ~(Len(line) >= 4 /\ \A i \in 1..4 : line[i] = " ")

\* re.sub(r'\n{3,}', '\n\n', text), run counting the newlines just copied
RECURSIVE collapse_newlines(_, _)
collapse_newlines(s, run) ==
  IF s = <<>> THEN <<>>
  ELSE IF Head(s) = "\n"
       THEN (IF run >= 2 THEN <<>> ELSE <<"\n">>)
              \o collapse_newlines(Tail(s), run + 1)
       ELSE <<Head(s)>> \o collapse_newlines(Tail(s), 0)

\* extract_plain_text: of its substitutions only the newline clean-up and the
\* final strip can match a source without markup characters
extract_plain_text(markdown_text) == strip(collapse_newlines(markdown_text, 0))

\* ------------------------------------------------------------------- viewer
\* the values of the data-sentence / data-word attributes in the document
SentenceIds(doc) == {doc[i].n : i \in {j \in 1..Len(doc) : doc[j].k = "sentence"}}
WordIds(doc) == {doc[i].n : i \in {j \in 1..Len(doc) : doc[j].k = "word"}}

\* highlightSentence(index): the sentence carrying current-sentence afterwards
highlightSentence(doc, index) ==
  IF index \in SentenceIds(doc) THEN index ELSE NOT_FOUND

\* highlightWord(offset): the word carrying current-word afterwards
highlightWord(doc, offset) ==
  IF offset \in WordIds(doc) THEN offset ELSE NOT_FOUND

\* scrollToSentence(index): the sentence the view is scrolled to afterwards
\* scrollToSentence without the test of the auto-scroll flag
scrollToSentence_unconditional(doc, auto_scroll, target, index) ==
  IF index \in SentenceIds(doc) THEN index ELSE target

\* the element in view after the viewer script's scrollToSentence(index)
scrollToSentence(doc, auto_scroll, target, index) ==
  IF ~auto_scroll THEN target
  ELSE IF index \in SentenceIds(doc) THEN index ELSE target

Command(name, arg) == [name |-> name, arg |-> arg]

\* -------------------------------------------------------------------- state
VARIABLES
  text,              \* TTSHighlighter._text
  sentences,         \* TTSHighlighter._sentences
  current_position,  \* TTSHighlighter._current_position
  call,              \* the operation called last, with its arguments
  ret,               \* the value that call returned
  last_update,       \* the argument of the most recent update_position call
  markdown_text,     \* the editor's content that was rendered
  tts_highlighter,   \* MainWindow.tts_highlighter is not None
  document,          \* the annotated document shown by the viewer
  current_sentence,  \* data-sentence of the element with class current-sentence
  current_word,      \* data-word of the element with class current-word
  autoScrollEnabled, \* the viewer script's auto-scroll flag
  scroll_target,     \* data-sentence of the element last scrolled into view
  commands,          \* the viewer commands issued by the last handler, in order
  mode,              \* MainWindow.stack.currentIndex(): "edit" or "view"
  is_playing,        \* TTSEngine._is_playing
  is_paused,         \* TTSEngine._is_paused
  worker,            \* TTSEngine._worker: a worker's number, 0 for None
  workers,           \* the TTSWorker threads: where run is, and _should_stop;
                     \* a worker that returned and has no signal queued is idle
  queue,             \* signals posted to the main thread, not yet delivered
  toolbar,           \* which of the toolbar's play/pause/stop actions are enabled
  status,            \* the status bar's message
  dialog,            \* the title of the message box the last step showed, "" for none
  delivered,         \* the queued signal the last step delivered, if it did
  signals,           \* the engine signals the window handled in the last step
  speech_key,        \* TTSEngine._speech_key is not empty
  synthesizer        \* TTSEngine._synthesizer is not None

trackerVars == <<text, sentences, current_position>>
viewerVars == <<document, current_sentence, current_word, autoScrollEnabled,
                scroll_target>>
engineVars == <<is_playing, is_paused, worker, workers, queue>>
chromeVars == <<mode, toolbar, status, dialog>>
playVars == <<engineVars, chromeVars, delivered, signals>>
configVars == <<speech_key, synthesizer>>
windowVars == <<markdown_text, tts_highlighter, viewerVars, commands, playVars,
                configVars>>
vars == <<trackerVars, call, ret, last_update, windowVars>>

\* ----------------------------------------------------------- TTSEngine state
MaxWorkers == 2
MaxQueue == 1
Workers == 1..MaxWorkers

\* ToolBar.set_playing
set_playing(playing) == [play |-> ~playing, pause |-> playing, stop |-> playing]

\* a TTSWorker whose run is not executing
WorkerIdle == [pc |-> "none", should_stop |-> FALSE]

\* a TTSWorker after setup and start
WorkerStarted == [pc |-> "started", should_stop |-> FALSE]

Event(sig, w, a, b) == [sig |-> sig, w |-> w, a |-> a, b |-> b]
NoEvent == Event("none", 0, 0, 0)

\* TTSEngine.__init__ given credentials, the SDK present and the synthesizer
\* built without an exception
Configured ==
  /\ speech_key = TRUE
  /\ synthesizer = TRUE

\* TTSEngine.__init__: without a key no synthesizer is built; with a key it is
\* built unless the SDK is missing or _initialize_synthesizer fails
EngineConfigs ==
  /\ speech_key \in BOOLEAN
  /\ synthesizer \in BOOLEAN
  /\ synthesizer => speech_key

\* TTSEngine.__init__ and the window around it, before any playback
EngineIdle ==
  /\ is_playing = FALSE
  /\ is_paused = FALSE
  /\ worker = 0
  /\ workers = [w \in Workers |-> WorkerIdle]
  /\ queue = <<>>
  /\ mode = "edit"
  /\ toolbar = set_playing(FALSE)
  /\ status = "Edit Mode"
  /\ dialog = ""
  /\ delivered = NoEvent
  /\ signals = <<>>

\* the engine once the first worker's started signal was delivered
EnginePlaying ==
  /\ is_playing = TRUE
  /\ is_paused = FALSE
  /\ worker = 1
  /\ workers = [w \in Workers |->
                  IF w = 1 THEN [WorkerStarted EXCEPT !.pc = "synthesizing"]
                  ELSE WorkerIdle]
  /\ queue = <<>>
  /\ mode = "view"
  /\ toolbar = set_playing(TRUE)
  /\ status = "TTS playing..."
  /\ dialog = ""
  /\ delivered = NoEvent
  /\ signals = <<>>

\* a window showing nothing, as far as a bare tracker is concerned
WindowIdle ==
  /\ markdown_text = <<>>
  /\ tts_highlighter = TRUE
  /\ document = <<>>
  /\ current_sentence = NOT_FOUND
  /\ current_word = NOT_FOUND
  /\ autoScrollEnabled = TRUE
  /\ scroll_target = NOT_FOUND
  /\ commands = <<>>
  /\ EngineIdle
  /\ Configured

\* TTSHighlighter.__init__ on any text
Init ==
  /\ text \in Texts
  /\ sentences = split_sentences(text)
  /\ current_position = 0
  /\ call = [op |-> "__init__", a |-> 0, b |-> 0]
  /\ ret = None
  /\ last_update = [called |-> FALSE, offset |-> 0]
  /\ WindowIdle

GetSentenceForOffset(o) ==
  /\ call' = [op |-> "get_sentence_for_offset", a |-> o, b |-> 0]
  /\ ret' = get_sentence_for_offset(text, sentences, o)
  /\ UNCHANGED <<trackerVars, last_update, windowVars>>

GetWordOffset(s, e) ==
  /\ call' = [op |-> "get_word_offset", a |-> s, b |-> e]
  /\ ret' = get_word_offset(text, s, e)
  /\ UNCHANGED <<trackerVars, last_update, windowVars>>

GetSentenceByIndex(i) ==
  /\ call' = [op |-> "get_sentence_by_index", a |-> i, b |-> 0]
  /\ ret' = get_sentence_by_index(sentences, i)
  /\ UNCHANGED <<trackerVars, last_update, windowVars>>

GetTextFromSentence(i) ==
  /\ call' = [op |-> "get_text_from_sentence", a |-> i, b |-> 0]
  /\ ret' = get_text_from_sentence(text, sentences, i)
  /\ UNCHANGED <<trackerVars, last_update, windowVars>>

UpdatePosition(o) ==
  /\ current_position' = update_position(o)
  /\ call' = [op |-> "update_position", a |-> o, b |-> 0]
  /\ ret' = None
  /\ last_update' = [called |-> TRUE, offset |-> o]
  /\ UNCHANGED <<text, sentences, windowVars>>

\* the sentences property
SentencesProperty ==
  /\ call' = [op |-> "sentences", a |-> 0, b |-> 0]
  /\ ret' = sentences_copy(sentences)
  /\ UNCHANGED <<trackerVars, last_update, windowVars>>

\* the caller empties the list the sentences property returned
ClearReturned ==
  /\ call.op = "sentences"
  /\ call' = [op |-> "sentences.clear", a |-> 0, b |-> 0]
  /\ ret' = [ret EXCEPT !.list = <<>>]
  /\ sentences' = IF ret.shared THEN <<>> ELSE sentences
  /\ UNCHANGED <<text, current_position, last_update, windowVars>>

Next ==
  \/ \E o \in Offsets : GetSentenceForOffset(o)
  \/ \E s \in Offsets : \E e \in {s, s + 1} : GetWordOffset(s, e)
  \/ \E i \in Offsets : GetSentenceByIndex(i)
  \/ \E i \in Offsets : GetTextFromSentence(i)
  \/ \E o \in Offsets : UpdatePosition(o)
  \/ SentencesProperty
  \/ ClearReturned

Spec == Init /\ [][Next]_vars

\* ------------------------------------------- playback of a rendered document
\* the window once _tts_play has extracted the plain text, built the tracker
\* from it and rendered the editor's content into the viewer
InitDoc ==
  /\ markdown_text \in Markdowns
  /\ strip(markdown_text) # <<>>
  /\ IsProse(markdown_text)
  /\ strip(extract_plain_text(markdown_text)) # <<>>
  /\ text = extract_plain_text(markdown_text)
  /\ sentences = split_sentences(text)
  /\ current_position = 0
  /\ tts_highlighter = TRUE
  /\ document = add_tts_spans(md_convert(markdown_text))
  /\ current_sentence = NOT_FOUND
  /\ current_word = NOT_FOUND
  /\ autoScrollEnabled = TRUE
  /\ scroll_target = NOT_FOUND
  /\ commands = <<>>
  /\ EnginePlaying
  /\ Configured
  /\ call = [op |-> "_tts_play", a |-> 0, b |-> 0]
  /\ ret = None
  /\ last_update = [called |-> FALSE, offset |-> 0]

\* the viewer commands of _on_tts_word_boundary that skips the word highlight
\* when no sentence was found
word_boundary_commands_found_only(sentence_idx, word_offset) ==
  IF sentence_idx >= 0
  THEN <<Command("highlight_sentence", sentence_idx),
         Command("scroll_to_sentence", sentence_idx),
         Command("highlight_word", word_offset)>>
  ELSE <<>>

\* the viewer commands _on_tts_word_boundary issues, in order
word_boundary_commands(sentence_idx, word_offset) ==
  (IF sentence_idx >= 0
   THEN <<Command("highlight_sentence", sentence_idx),
          Command("scroll_to_sentence", sentence_idx)>>
   ELSE <<>>)
  \o <<Command("highlight_word", word_offset)>>

\* MainWindow._on_tts_word_boundary, as far as tracker and viewer go
on_tts_word_boundary(start_offset, length) ==
  /\ call' = [op |-> "_on_tts_word_boundary", a |-> start_offset, b |-> length]
  /\ UNCHANGED configVars
  /\ ret' = None
  /\ IF ~tts_highlighter
     THEN /\ commands' = <<>>
          /\ UNCHANGED <<trackerVars, last_update, markdown_text,
                         tts_highlighter, viewerVars>>
     ELSE LET sentence_idx == get_sentence_for_offset(text, sentences, start_offset)
              word_offset == get_word_offset(text, start_offset,
                                             start_offset + length)
          IN  /\ current_position' = update_position(start_offset)
              /\ last_update' = [called |-> TRUE, offset |-> start_offset]
              /\ current_sentence' =
                   IF sentence_idx >= 0
                   THEN highlightSentence(document, sentence_idx)
                   ELSE current_sentence
              /\ scroll_target' =
                   IF sentence_idx >= 0
                   THEN scrollToSentence(document, autoScrollEnabled,
                                         scroll_target, sentence_idx)
                   ELSE scroll_target
              /\ current_word' = highlightWord(document, word_offset)
              /\ commands' = word_boundary_commands(sentence_idx, word_offset)
              /\ UNCHANGED <<text, sentences, markdown_text, tts_highlighter,
                             document, autoScrollEnabled>>

\* a word-boundary signal reaching MainWindow._on_tts_word_boundary
OnTtsWordBoundary(start_offset, length) ==
  /\ on_tts_word_boundary(start_offset, length)
  /\ UNCHANGED playVars

\* the viewer script's wheel listener: a manual scroll
OnWheel ==
  /\ mode = "view"
  /\ autoScrollEnabled' = FALSE
  /\ call' = [op |-> "wheel", a |-> 0, b |-> 0]
  /\ ret' = None
  /\ commands' = <<>>
  /\ delivered' = NoEvent
  /\ signals' = <<>>
  /\ dialog' = ""
  /\ UNCHANGED <<trackerVars, last_update, markdown_text, tts_highlighter,
                 document, current_sentence, current_word, scroll_target,
                 engineVars, mode, toolbar, status, configVars>>

NextDoc ==
  \/ \E o \in Offsets : \E n \in Lengths : OnTtsWordBoundary(o, n)
  \/ OnWheel

SpecDoc == InitDoc /\ [][NextDoc]_vars

\* ------------------------------------------------------ playback, end to end
\* the editor's content, and the events the speech provider reports for it
EditorTexts == {<<"a", ".", " ", "a">>}
BoundaryOffsets == {0, 3}
BoundaryLength == 1
Outcomes == {"completed", "canceled_error", "canceled_user", "exception"}

\* is_configured looking at the key alone
is_configured_key_only == speech_key

\* TTSEngine.is_configured; the region always has its default or a set value
is_configured == speech_key /\ synthesizer

\* the engine, the toolbar and the status bar as one value, so that a handler's
\* nested calls compose; signals collects the engine signals the window handles
Engine ==
  [is_playing |-> is_playing, is_paused |-> is_paused, worker |-> worker,
   workers |-> workers, queue |-> queue, toolbar |-> toolbar,
   status |-> status, dialog |-> "", signals |-> <<>>]

\* the worker threads, forgetting those that returned and have no signal left
\* in the queue: nothing can tell them from a worker never started
live_workers(ws, q) ==
  [w \in Workers |->
     IF ws[w].pc = "none" /\ \A i \in 1..Len(q) : q[i].w # w
     THEN WorkerIdle
     ELSE ws[w]]

SetEngine(e) ==
  /\ is_playing' = e.is_playing
  /\ is_paused' = e.is_paused
  /\ worker' = e.worker
  /\ workers' = live_workers(e.workers, e.queue)
  /\ queue' = e.queue
  /\ toolbar' = e.toolbar
  /\ status' = e.status
  /\ dialog' = e.dialog
  /\ signals' = e.signals

\* MainWindow._on_tts_started
on_tts_started(e) ==
  [e EXCEPT !.toolbar = set_playing(TRUE),
            !.status = "TTS playing...",
            !.signals = Append(@, "started")]

\* MainWindow._on_tts_paused
on_tts_paused(e) ==
  [e EXCEPT !.toolbar = [play |-> TRUE, pause |-> FALSE, stop |-> TRUE],
            !.status = "TTS paused",
            !.signals = Append(@, "paused")]

\* MainWindow._on_tts_stopped
on_tts_stopped(e) ==
  [e EXCEPT !.toolbar = set_playing(FALSE),
            !.status = "TTS stopped",
            !.signals = Append(@, "stopped")]

\* MainWindow._on_tts_finished, but for its viewer command
on_tts_finished(e) ==
  [e EXCEPT !.toolbar = set_playing(FALSE),
            !.status = "TTS finished",
            !.signals = Append(@, "finished")]

\* MainWindow._on_tts_error
on_tts_error(e) ==
  [e EXCEPT !.toolbar = set_playing(FALSE),
            !.status = "TTS Error",
            !.dialog = "TTS Error",
            !.signals = Append(@, "error")]

\* TTSWorker.run of worker w from where it is to its return, the stop flag
\* being set and the provider call ending without an exception
run_out(e, w) ==
  [e EXCEPT !.workers[w].pc = "none",
            !.queue = IF e.workers[w].pc = "started"
                      THEN Append(@, Event("started", w, 0, 0))
                      ELSE @]

\* TTSEngine.stop; finished_in_wait tells whether a running worker returns
\* within wait(1000)
engine_stop(e, finished_in_wait) ==
  LET stopped ==
        IF e.worker = 0 THEN e
        ELSE LET flagged == [e EXCEPT !.workers[e.worker].should_stop = TRUE]
                 waited == IF flagged.workers[e.worker].pc # "none"
                              /\ finished_in_wait
                           THEN run_out(flagged, e.worker)
                           ELSE flagged
             IN  [waited EXCEPT !.worker = 0]
  IN  IF stopped.is_playing
      THEN on_tts_stopped([stopped EXCEPT !.is_playing = FALSE,
                                          !.is_paused = FALSE])
      ELSE stopped

\* TTSEngine.pause without its test of the flags and of the worker
engine_pause_unguarded(e) == on_tts_paused([e EXCEPT !.is_paused = TRUE])

\* TTSEngine.pause; TTSWorker.pause sets a flag of the worker that neither
\* run nor the provider reads, so the worker's state stays as it is
engine_pause(e) ==
  IF e.is_playing /\ ~e.is_paused /\ e.worker # 0
  THEN on_tts_paused([e EXCEPT !.is_paused = TRUE])
  ELSE e

\* TTSEngine.resume; TTSWorker.resume clears the flag nothing reads
engine_resume(e) ==
  IF e.is_paused /\ e.worker # 0
  THEN on_tts_started([e EXCEPT !.is_paused = FALSE])
  ELSE e

\* the numbers a new TTSWorker can take: those of workers that returned and
\* have no signal left in the queue
FreeWorkers(e) ==
  {w \in Workers : /\ e.workers[w].pc = "none"
                   /\ \A i \in 1..Len(e.queue) : e.queue[i].w # w}

\* the engine after the stop that TTSEngine.play begins with when playing
play_stop(e, finished_in_wait) ==
  IF e.is_playing THEN engine_stop(e, finished_in_wait) ELSE e

\* TTSEngine.play of a configured engine
engine_play(e, finished_in_wait) ==
  LET idle == play_stop(e, finished_in_wait)
      w == CHOOSE w \in FreeWorkers(idle) : \A v \in FreeWorkers(idle) : w <= v
  IN  [idle EXCEPT !.worker = w, !.workers[w] = WorkerStarted]

\* ViewerWidget.set_html: the page is loaded anew, and its script with it
SetHtml ==
  /\ document' = add_tts_spans(md_convert(markdown_text))
  /\ current_sentence' = NOT_FOUND
  /\ current_word' = NOT_FOUND
  /\ autoScrollEnabled' = TRUE
  /\ scroll_target' = NOT_FOUND

\* the viewer script's clearHighlights
clearHighlights ==
  /\ current_sentence' = NOT_FOUND
  /\ current_word' = NOT_FOUND

\* a step of the main thread that no queued signal caused
UserCommand(op) ==
  /\ call' = [op |-> op, a |-> 0, b |-> 0]
  /\ ret' = None
  /\ delivered' = NoEvent
  /\ UNCHANGED configVars

\* a step of a worker thread or of the provider
Background(op, w) ==
  /\ call' = [op |-> op, a |-> w, b |-> 0]
  /\ ret' = None
  /\ delivered' = NoEvent
  /\ signals' = <<>>
  /\ commands' = <<>>
  /\ dialog' = ""
  /\ UNCHANGED <<trackerVars, last_update, markdown_text, tts_highlighter,
                 viewerVars, is_playing, is_paused, worker, mode, toolbar,
                 status, configVars>>

\* the main window after construction, with a document in the editor
InitPlay ==
  /\ markdown_text \in EditorTexts
  /\ IsProse(markdown_text)
  /\ text = <<>>
  /\ sentences = <<>>
  /\ current_position = 0
  /\ tts_highlighter = FALSE
  /\ document = <<>>
  /\ current_sentence = NOT_FOUND
  /\ current_word = NOT_FOUND
  /\ autoScrollEnabled = TRUE
  /\ scroll_target = NOT_FOUND
  /\ commands = <<>>
  /\ EngineIdle
  /\ EngineConfigs
  /\ call = [op |-> "__init__", a |-> 0, b |-> 0]
  /\ ret = None
  /\ last_update = [called |-> FALSE, offset |-> 0]

\* MainWindow._tts_play
TtsPlay(finished_in_wait) ==
  /\ UserCommand("_tts_play")
  /\ IF is_paused
     THEN /\ SetEngine(engine_resume(Engine))
          /\ commands' = <<>>
          /\ UNCHANGED <<trackerVars, last_update, markdown_text,
                         tts_highlighter, viewerVars, mode>>
     ELSE IF ~is_configured
     THEN /\ SetEngine([Engine EXCEPT !.dialog = "TTS Not Configured"])
          /\ commands' = <<>>
          /\ UNCHANGED <<trackerVars, last_update, markdown_text,
                         tts_highlighter, viewerVars, mode>>
     ELSE IF strip(markdown_text) = <<>>
     THEN /\ SetEngine([Engine EXCEPT !.status = "No content to read"])
          /\ commands' = <<>>
          /\ UNCHANGED <<trackerVars, last_update, markdown_text,
                         tts_highlighter, viewerVars, mode>>
     ELSE IF strip(extract_plain_text(markdown_text)) = <<>>
     THEN /\ SetEngine([Engine EXCEPT !.status = "No readable text found"])
          /\ commands' = <<>>
          /\ UNCHANGED <<trackerVars, last_update, markdown_text,
                         tts_highlighter, viewerVars, mode>>
     ELSE LET rendered == IF mode = "edit"
                          THEN [Engine EXCEPT !.status = "Render Mode"]
                          ELSE Engine
          IN  /\ FreeWorkers(play_stop(rendered, finished_in_wait)) # {}
              /\ Len(play_stop(rendered, finished_in_wait).queue) <= MaxQueue
              /\ text' = extract_plain_text(markdown_text)
              /\ sentences' = split_sentences(extract_plain_text(markdown_text))
              /\ current_position' = 0
              /\ last_update' = [called |-> FALSE, offset |-> 0]
              /\ tts_highlighter' = TRUE
              /\ IF mode = "edit"
                 THEN SetHtml /\ commands' = <<Command("set_html", 0)>>
                 ELSE UNCHANGED viewerVars /\ commands' = <<>>
              /\ mode' = "view"
              /\ SetEngine(engine_play(rendered, finished_in_wait))
              /\ UNCHANGED markdown_text

\* MainWindow._tts_pause
TtsPause ==
  /\ UserCommand("_tts_pause")
  /\ SetEngine(engine_pause(Engine))
  /\ commands' = <<>>
  /\ UNCHANGED <<trackerVars, last_update, markdown_text, tts_highlighter,
                 viewerVars, mode>>

\* MainWindow._tts_stop
TtsStop(finished_in_wait) ==
  /\ UserCommand("_tts_stop")
  /\ Len(engine_stop(Engine, finished_in_wait).queue) <= MaxQueue
  /\ SetEngine(engine_stop(Engine, finished_in_wait))
  /\ clearHighlights
  /\ commands' = <<Command("clear_highlights", 0)>>
  /\ UNCHANGED <<trackerVars, last_update, markdown_text, tts_highlighter,
                 document, autoScrollEnabled, scroll_target, mode>>

\* MainWindow.toggle_mode
ToggleMode ==
  /\ UserCommand("toggle_mode")
  /\ IF mode = "edit"
     THEN /\ SetHtml
          /\ commands' = <<Command("set_html", 0)>>
          /\ mode' = "view"
          /\ SetEngine([Engine EXCEPT !.status = "Render Mode"])
     ELSE /\ SetEngine([(IF is_playing /\ ~is_paused
                         THEN engine_pause(Engine)
                         ELSE Engine) EXCEPT !.status = "Edit Mode"])
          /\ commands' = <<>>
          /\ mode' = "edit"
          /\ UNCHANGED viewerVars
  /\ UNCHANGED <<trackerVars, last_update, markdown_text, tts_highlighter>>

\* the viewer commands jump_to_reading_position issues, in order
jump_commands(sentence_idx) ==
  <<Command("scroll_to_sentence", sentence_idx), Command("enable_auto_scroll", 0)>>

\* MainWindow.jump_to_reading_position
JumpToReadingPosition ==
  /\ UserCommand("jump_to_reading_position")
  /\ signals' = <<>>
  /\ IF ~tts_highlighter \/ ~is_playing
     THEN /\ commands' = <<>>
          /\ UNCHANGED viewerVars
     ELSE LET sentence_idx ==
                get_sentence_for_offset(text, sentences, current_position)
          IN  IF sentence_idx >= 0
              THEN /\ commands' = jump_commands(sentence_idx)
                   /\ scroll_target' =
                        scrollToSentence(document, autoScrollEnabled,
                                         scroll_target, sentence_idx)
                   /\ autoScrollEnabled' = TRUE
                   /\ UNCHANGED <<document, current_sentence, current_word>>
              ELSE /\ commands' = <<>>
                   /\ UNCHANGED viewerVars
  /\ dialog' = ""
  /\ UNCHANGED <<trackerVars, last_update, markdown_text, tts_highlighter,
                 engineVars, mode, toolbar, status>>

\* TTSWorker.run up to the provider call: the started signal is posted
WorkerRun(w) ==
  /\ workers[w].pc = "started"
  /\ Len(queue) < MaxQueue
  /\ workers' = [workers EXCEPT ![w].pc = "synthesizing"]
  /\ queue' = Append(queue, Event("started", w, 0, 0))
  /\ Background("TTSWorker.run", w)

\* TTSEngine._on_word_boundary, called by the provider during worker w's
\* speak_ssml_async: the engine's word_boundary signal is posted
ProviderWordBoundary(w, text_offset) ==
  /\ workers[w].pc = "synthesizing"
  /\ Len(queue) < MaxQueue
  /\ queue' = Append(queue, Event("word_boundary", w, text_offset, BoundaryLength))
  /\ Background("_on_word_boundary", w)
  /\ UNCHANGED workers

\* the signals TTSWorker.run posts once the provider call is over
run_result(should_stop, outcome) ==
  IF outcome = "exception" THEN <<"error">>
  ELSE IF should_stop THEN <<>>
  ELSE IF outcome = "completed" THEN <<"finished">>
  ELSE IF outcome = "canceled_error" THEN <<"error">>
  ELSE <<"finished">>

\* TTSWorker.run from the return of the provider call to its end
ProviderReturn(w, outcome) ==
  /\ workers[w].pc = "synthesizing"
  /\ LET posted == run_result(workers[w].should_stop, outcome)
     IN  /\ Len(queue) + Len(posted) <= MaxQueue
         /\ queue' = queue \o [i \in 1..Len(posted) |-> Event(posted[i], w, 0, 0)]
  /\ workers' = live_workers([workers EXCEPT ![w].pc = "none"], queue')
  /\ Background("TTSWorker.run", w)

\* a queued signal reaches its slot in the main thread
Delivery(sig) ==
  /\ queue # <<>>
  /\ Head(queue).sig = sig
  /\ delivered' = Head(queue)
  /\ UNCHANGED configVars

\* TTSEngine._on_playback_started, then MainWindow._on_tts_started
DeliverStarted ==
  /\ Delivery("started")
  /\ call' = [op |-> "_on_tts_started", a |-> 0, b |-> 0]
  /\ ret' = None
  /\ SetEngine(on_tts_started([Engine EXCEPT !.is_playing = TRUE,
                                             !.is_paused = FALSE,
                                             !.queue = Tail(queue)]))
  /\ commands' = <<>>
  /\ UNCHANGED <<trackerVars, last_update, markdown_text, tts_highlighter,
                 viewerVars, mode>>

\* TTSEngine._on_playback_finished, then MainWindow._on_tts_finished
DeliverFinished ==
  /\ Delivery("finished")
  /\ call' = [op |-> "_on_tts_finished", a |-> 0, b |-> 0]
  /\ ret' = None
  /\ SetEngine(on_tts_finished([Engine EXCEPT !.is_playing = FALSE,
                                              !.is_paused = FALSE,
                                              !.queue = Tail(queue)]))
  /\ clearHighlights
  /\ commands' = <<Command("clear_highlights", 0)>>
  /\ UNCHANGED <<trackerVars, last_update, markdown_text, tts_highlighter,
                 document, autoScrollEnabled, scroll_target, mode>>

\* TTSEngine.error_occurred forwarded from the worker, then
\* MainWindow._on_tts_error
DeliverError ==
  /\ Delivery("error")
  /\ call' = [op |-> "_on_tts_error", a |-> 0, b |-> 0]
  /\ ret' = None
  /\ SetEngine(on_tts_error([Engine EXCEPT !.queue = Tail(queue)]))
  /\ commands' = <<>>
  /\ UNCHANGED <<trackerVars, last_update, markdown_text, tts_highlighter,
                 viewerVars, mode>>

\* TTSEngine.word_boundary, then MainWindow._on_tts_word_boundary
DeliverWordBoundary ==
  /\ Delivery("word_boundary")
  /\ on_tts_word_boundary(Head(queue).a, Head(queue).b)
  /\ queue' = Tail(queue)
  /\ workers' = live_workers(workers, Tail(queue))
  /\ signals' = <<"word_boundary">>
  /\ dialog' = ""
  /\ UNCHANGED <<is_playing, is_paused, worker, mode, toolbar, status>>

NextPlay ==
  \/ \E finished_in_wait \in BOOLEAN : TtsPlay(finished_in_wait)
  \/ TtsPause
  \/ \E finished_in_wait \in BOOLEAN : TtsStop(finished_in_wait)
  \/ ToggleMode
  \/ JumpToReadingPosition
  \/ OnWheel
  \/ \E w \in Workers : WorkerRun(w)
  \/ \E w \in Workers : \E o \in BoundaryOffsets : ProviderWordBoundary(w, o)
  \/ \E w \in Workers : \E outcome \in Outcomes : ProviderReturn(w, outcome)
  \/ DeliverStarted
  \/ DeliverFinished
  \/ DeliverError
  \/ DeliverWordBoundary

SpecPlay == InitPlay /\ [][NextPlay]_vars

\* ------------------------------------------------ the annotator on any HTML
\* longest HTML input explored
MaxHtml == 6

\* characters of the explored HTML inputs: text, and what tags are made of
HtmlAlphabet == {"a", " ", ".", "<", ">"}

Htmls == StringsUpTo(HtmlAlphabet, MaxHtml)

\* MarkdownRenderer.render holding the converted html_content
InitAnnotate ==
  /\ \E html \in Htmls : call = [op |-> "render", a |-> html, b |-> 0]
  /\ ret = None
  /\ text = <<>>
  /\ sentences = <<>>
  /\ current_position = 0
  /\ last_update = [called |-> FALSE, offset |-> 0]
  /\ WindowIdle

\* _add_tts_spans(html_content), and the viewer shows the annotated document
AddTtsSpans ==
  /\ call.op = "render"
  /\ call' = [call EXCEPT !.op = "_add_tts_spans"]
  /\ ret' = add_tts_spans(call.a)
  /\ document' = add_tts_spans(call.a)
  /\ commands' = <<Command("set_html", 0)>>
  /\ UNCHANGED <<trackerVars, last_update, markdown_text, tts_highlighter,
                 current_sentence, current_word, autoScrollEnabled,
                 scroll_target, playVars, configVars>>

NextAnnotate == AddTtsSpans

SpecAnnotate == InitAnnotate /\ [][NextAnnotate]_vars

\* ------------------------------------- the tracker on the documented example
\* "First sentence. Second sentence."
ExampleText ==
  <<"F", "i", "r", "s", "t", " ", "s", "e", "n", "t", "e", "n", "c", "e",
    ".", " ", "S", "e", "c", "o", "n", "d", " ", "s", "e", "n", "t", "e",
    "n", "c", "e", ".">>

\* "First sentence."
FirstSentence ==
  <<"F", "i", "r", "s", "t", " ", "s", "e", "n", "t", "e", "n", "c", "e",
    ".">>

\* "Second sentence."
SecondSentence ==
  <<"S", "e", "c", "o", "n", "d", " ", "s", "e", "n", "t", "e", "n", "c",
    "e", ".">>

\* offsets and indices handed to the tracker built from the example
ExampleOffsets == -1..(Len(ExampleText) + 1)

\* TTSHighlighter.__init__ on the example
InitExample ==
  /\ text = ExampleText
  /\ sentences = split_sentences(text)
  /\ current_position = 0
  /\ call = [op |-> "__init__", a |-> 0, b |-> 0]
  /\ ret = None
  /\ last_update = [called |-> FALSE, offset |-> 0]
  /\ WindowIdle

NextExample ==
  \/ \E o \in ExampleOffsets : GetSentenceForOffset(o)
  \/ \E i \in ExampleOffsets : GetSentenceByIndex(i)
  \/ \E i \in ExampleOffsets : GetTextFromSentence(i)
  \/ \E o \in ExampleOffsets : UpdatePosition(o)
  \/ SentencesProperty

SpecExample == InitExample /\ [][NextExample]_vars

\* ------------------------------------------- the engine's own interface
\* the window after construction; its engine is called as the tests call it
InitEngine ==
  /\ markdown_text = <<>>
  /\ text = <<>>
  /\ sentences = <<>>
  /\ current_position = 0
  /\ tts_highlighter = FALSE
  /\ document = <<>>
  /\ current_sentence = NOT_FOUND
  /\ current_word = NOT_FOUND
  /\ autoScrollEnabled = TRUE
  /\ scroll_target = NOT_FOUND
  /\ commands = <<>>
  /\ EngineIdle
  /\ EngineConfigs
  /\ call = [op |-> "__init__", a |-> 0, b |-> 0]
  /\ ret = None
  /\ last_update = [called |-> FALSE, offset |-> 0]

\* a call of one of the engine's methods: window and tracker stay as they are
EngineCall(op, result) ==
  /\ call' = [op |-> op, a |-> 0, b |-> 0]
  /\ ret' = result
  /\ delivered' = NoEvent
  /\ commands' = <<>>
  /\ UNCHANGED <<trackerVars, last_update, markdown_text, tts_highlighter,
                 viewerVars, mode, configVars>>

\* TTSEngine.play
EnginePlay(finished_in_wait) ==
  /\ EngineCall("play", is_configured)
  /\ IF ~is_configured
     THEN SetEngine(on_tts_error(Engine))
     ELSE /\ FreeWorkers(play_stop(Engine, finished_in_wait)) # {}
          /\ Len(play_stop(Engine, finished_in_wait).queue) <= MaxQueue
          /\ SetEngine(engine_play(Engine, finished_in_wait))

\* TTSEngine.pause
EnginePause ==
  /\ EngineCall("pause", None)
  /\ SetEngine(engine_pause(Engine))

\* TTSEngine.resume
EngineResume ==
  /\ EngineCall("resume", None)
  /\ SetEngine(engine_resume(Engine))

\* TTSEngine.stop
EngineStop(finished_in_wait) ==
  /\ EngineCall("stop", None)
  /\ Len(engine_stop(Engine, finished_in_wait).queue) <= MaxQueue
  /\ SetEngine(engine_stop(Engine, finished_in_wait))

NextEngine ==
  \/ \E finished_in_wait \in BOOLEAN : EnginePlay(finished_in_wait)
  \/ EnginePause
  \/ EngineResume
  \/ \E finished_in_wait \in BOOLEAN : EngineStop(finished_in_wait)
  \/ \E w \in Workers : WorkerRun(w)
  \/ \E w \in Workers : \E o \in BoundaryOffsets : ProviderWordBoundary(w, o)
  \/ \E w \in Workers : \E outcome \in Outcomes : ProviderReturn(w, outcome)
  \/ DeliverStarted
  \/ DeliverFinished
  \/ DeliverError
  \/ DeliverWordBoundary

SpecEngine == InitEngine /\ [][NextEngine]_vars

\* ------------------------------------------------- vocabulary of the claims
sentence_count == Len(sentences)

\* the characters of the text from 0-based position p to its end
SuffixFrom(p) == [k \in 1..(Len(text) - p) |-> text[p + k]]

\* the last handler issued the viewer command called name
Issued(name) == \E i \in 1..Len(commands) : commands[i].name = name

\* the window handled the engine signal sig in the last step
Handled(sig) == \E i \in 1..Len(signals) : signals[i] = sig

\* the number of whitespace characters the text begins with
LeadingBlanks ==
  Cardinality({i \in 1..Len(text) : \A j \in 1..i : text[j] \in Whitespace})

IsTerminator(i) == text[i] \in Terminators
IsBlank(i) == text[i] \in Whitespace

\* 1-based positions where a maximal run of terminators begins
TerminatorRuns ==
  {i \in 1..Len(text) : IsTerminator(i) /\ (i = 1 \/ ~IsTerminator(i - 1))}

\* some non-whitespace character follows the last terminator of the text
HasTrailingRemainder ==
  \E i \in 1..Len(text) :
    /\ ~IsBlank(i)
    /\ \A j \in i..Len(text) : ~IsTerminator(j)

\* 1-based positions where a maximal terminator-free segment begins that
\* holds at least one non-whitespace character
NonEmptySegments ==
  {i \in 1..Len(text) :
     /\ ~IsTerminator(i)
     /\ (i = 1 \/ IsTerminator(i - 1))
     /\ \E j \in i..Len(text) :
          ~IsBlank(j) /\ \A k \in i..j : ~IsTerminator(k)}

\* indices (1-based) of the sentences whose [start, end) holds offset o
Containing(o) ==
  {k \in 1..Len(sentences) : sentences[k].start <= o /\ o < sentences[k].end}

SetMin(S) == CHOOSE x \in S : \A y \in S : x <= y

\* the words of the text before offset o: positions where a token begins
TokenStartsBefore(o) ==
  {i \in 1..Len(text) : i <= o /\ ~IsBlank(i) /\ (i = 1 \/ IsBlank(i - 1))}

AllBlank == \A i \in 1..Len(text) : IsBlank(i)

\* 0-based offsets at which the words of the tracker's text begin
WordStarts ==
  {i - 1 : i \in {j \in 1..Len(text) : ~IsBlank(j) /\ (j = 1 \/ IsBlank(j - 1))}}

\* positions in the document of the inserted markers of a kind
MarkerPositions(kind) == {i \in 1..Len(document) : document[i].k = kind}

\* position of the k-th marker of a kind, in document order
NthMarker(kind, k) ==
  CHOOSE p \in MarkerPositions(kind) :
    Cardinality({q \in MarkerPositions(kind) : q <= p}) = k

\* the characters wrapped by the span opened at position p - 1: the text from
\* position p up to the </span> that closes it, depth counting the open spans
RECURSIVE WrappedFrom(_, _)
WrappedFrom(p, depth) ==
  IF p > Len(document) THEN <<>>
  ELSE IF document[p].k = "close"
       THEN (IF depth = 1 THEN <<>> ELSE WrappedFrom(p + 1, depth - 1))
  ELSE IF document[p].k \in {"sentence", "word"} THEN WrappedFrom(p + 1, depth + 1)
  ELSE document[p].s \o WrappedFrom(p + 1, depth)

Wrapped(p) == WrappedFrom(p + 1, 1)

\* the arguments of the viewer commands called name that the last handler issued
IssuedArgs(name) ==
  {commands[i].arg : i \in {j \in 1..Len(commands) : commands[j].name = name}}

\* the playback states the engine's two flags tell apart
Playing == is_playing /\ ~is_paused
Paused == is_playing /\ is_paused
NotPlaying == ~is_playing

\* what the word counter advances by for the word marker at position p: the
\* length of the word it wraps and of the whitespace emitted right after it
WordAdvance(p) ==
  Len(document[p + 1].s)
    + (IF p + 3 <= Len(document) /\ document[p + 3].k = "text"
       THEN Len(document[p + 3].s) ELSE 0)

\* the sum of WordAdvance over the first k word markers
RECURSIVE AdvanceBefore(_)
AdvanceBefore(k) ==
  IF k = 0 THEN 0
  ELSE AdvanceBefore(k - 1) + WordAdvance(NthMarker("word", k))

\* the characters of an annotated document once the inserted tts-sentence and
\* tts-word span tags are deleted
RECURSIVE WithoutMarkers(_)
WithoutMarkers(doc) ==
  IF doc = <<>> THEN <<>>
  ELSE (IF Head(doc).k \in {"tag", "text"} THEN Head(doc).s ELSE <<>>)
         \o WithoutMarkers(Tail(doc))

\* ------------------------------------------------------------------ claims

\* C1: for a word-boundary event at the first character of a word of the
\* text, the identifier passed to highlight_word (get_word_offset) equals the
\* data-word value of the marker that wraps that word in the document.
C1_WordIdentifierParity ==
  (call.op = "_on_tts_word_boundary" /\ call.a \in WordStarts) =>
    LET k == Cardinality({p \in WordStarts : p <= call.a})
    IN  /\ Cardinality(MarkerPositions("word")) >= k
        /\ commands[Len(commands)] =
             Command("highlight_word", document[NthMarker("word", k)].n)

\* C2: the annotated rendering of a text holds exactly sentence_count sentence
\* markers, and the marker with data-sentence = i wraps the text of the
\* tracker's sentence i.
C2_SentenceParity ==
  document # <<>> =>
    /\ Cardinality(MarkerPositions("sentence")) = sentence_count
    /\ \A i \in 1..sentence_count :
         /\ document[NthMarker("sentence", i)].n = sentences[i].index
         /\ strip(Wrapped(NthMarker("sentence", i))) = sentences[i].text

\* C3: get_sentence_for_offset returns the index of the first sentence whose
\* [start, end) holds the offset; when none does, a sentence exists and the
\* offset is at or past the end of the text, the last sentence's index;
\* NOT_FOUND in every other case.
C3_SentenceForOffset ==
  call.op = "get_sentence_for_offset" =>
    IF Containing(call.a) # {}
    THEN ret = sentences[SetMin(Containing(call.a))].index
    ELSE IF sentences # <<>> /\ call.a >= Len(text)
         THEN ret = sentences[Len(sentences)].index
         ELSE ret = NOT_FOUND

\* the end-of-text fallback answered a query no sentence contains
C3_Witness ==
  /\ call.op = "get_sentence_for_offset"
  /\ Containing(call.a) = {}
  /\ call.a >= Len(text)
  /\ sentence_count >= 2
  /\ ret = sentence_count - 1

\* C4: the sentence list is ordered and non-overlapping: the first start is
\* not negative and each sentence ends no later than the next one starts.
C4_OrderedNonOverlapping ==
  /\ sentences # <<>> => sentences[1].start >= 0
  /\ \A k \in 1..(Len(sentences) - 1) : sentences[k].end <= sentences[k + 1].start

\* two sentences with whitespace between them
C4_Witness ==
  /\ sentence_count >= 2
  /\ sentences[1].end < sentences[2].start

\* C5 (as stated): sentence_count is the number of non-empty segments between
\* maximal terminator runs, a trailing unterminated remainder included.
C5_CountIsNonEmptySegments ==
  text # <<>> => sentence_count = Cardinality(NonEmptySegments)

\* C5 (amended): sentence_count is the number of maximal terminator runs,
\* plus one when non-whitespace text follows the last run.
C5_CountIsRunsPlusRemainder ==
  text # <<>> =>
    sentence_count = Cardinality(TerminatorRuns)
                       + (IF HasTrailingRemainder THEN 1 ELSE 0)

\* a terminator run with nothing but whitespace before it still made a sentence
C5_Witness ==
  /\ sentence_count = 2
  /\ Cardinality(NonEmptySegments) = 1
  /\ HasTrailingRemainder

\* C6: each sentence starts at its first non-whitespace character and ends
\* right after its terminator run, or at len(text) for an unterminated final
\* remainder; its text is source[start:end] without surrounding whitespace,
\* and start < end.
C6_SentenceBounds ==
  \A k \in 1..Len(sentences) :
    LET s == sentences[k]
        prev_end == IF k = 1 THEN 0 ELSE sentences[k - 1].end
        last_char == CHOOSE r \in (s.start + 1)..s.end :
                       /\ ~IsBlank(r)
                       /\ \A j \in (r + 1)..s.end : IsBlank(j)
    IN  /\ s.start < s.end
        /\ s.end <= Len(text)
        /\ prev_end <= s.start
        /\ ~IsBlank(s.start + 1)
        /\ \A j \in (prev_end + 1)..s.start : IsBlank(j)
        /\ \/ /\ IsTerminator(s.end)
              /\ s.end = Len(text) \/ ~IsTerminator(s.end + 1)
              /\ \A j \in (s.start + 1)..s.end :
                   IsTerminator(j) => \A m \in j..s.end : IsTerminator(m)
           \/ /\ k = Len(sentences)
              /\ s.end = Len(text)
              /\ \A j \in (s.start + 1)..s.end : ~IsTerminator(j)
        /\ s.text = SubSeq(text, s.start + 1, last_char)

\* a sentence after leading whitespace, followed by an unterminated remainder
\* that has trailing whitespace
C6_Witness ==
  /\ sentence_count = 2
  /\ sentences[1].start > 0
  /\ sentences[2].end = Len(text)
  /\ IsBlank(Len(text))

\* C7: the k-th sentence (0-based) carries index k.
C7_SequentialIndices ==
  \A k \in 1..Len(sentences) : sentences[k].index = k - 1

\* three sentences
C7_Witness == sentence_count = 3 /\ sentences[3].index = 2

\* C8: a tracker built from empty or all-whitespace text has no sentences and
\* answers every query with its sentinel.
C8_EmptyTracker ==
  AllBlank =>
    /\ sentences = <<>>
    /\ call.op = "get_sentence_for_offset" => ret = NOT_FOUND
    /\ call.op = "get_sentence_by_index" => ret = None
    /\ call.op = "get_text_from_sentence" => ret = <<>>

\* whitespace-only text, queried at an offset inside it
C8_Witness ==
  /\ AllBlank
  /\ text # <<>>
  /\ call.op = "get_sentence_for_offset"
  /\ call.a \in 0..(Len(text) - 1)
  /\ ret = NOT_FOUND

\* C9: get_word_offset(start, _) is 0 for start <= 0 and otherwise the number
\* of whitespace-delimited tokens of text[0:start]; it does not decrease as
\* start grows and does not depend on the second argument.
C9_WordOffset ==
  call.op = "get_word_offset" =>
    /\ ret = (IF call.a <= 0 THEN 0 ELSE Cardinality(TokenStartsBefore(call.a)))
    /\ \A s \in Offsets : \A e \in Offsets :
         /\ s >= call.a => get_word_offset(text, s, e) >= ret
         /\ s = call.a => get_word_offset(text, s, e) = ret

\* a query in the middle of the second word, with a non-trivial second argument
C9_Witness ==
  /\ call.op = "get_word_offset"
  /\ call.b # call.a
  /\ ret = 2
  /\ call.a < Len(text)
  /\ ~IsBlank(call.a)

\* C10: current_position is max(0, offset) of the most recent update_position
\* call, 0 when there was none; it is never negative and has no upper clamp.
C10_CurrentPosition ==
  /\ current_position >= 0
  /\ current_position =
       (IF ~last_update.called THEN 0
        ELSE IF last_update.offset < 0 THEN 0 ELSE last_update.offset)

\* a position past the end of the text was stored unclamped
C10_Witness ==
  /\ last_update.called
  /\ current_position > Len(text)
  /\ text # <<>>

\* C11: no tracker operation changes the text or the sentence table, and only
\* update_position changes current_position; emptying the list returned by the
\* sentences property leaves the tracker's sentence table as it was.
C11_FrameEffect ==
  [][/\ text' = text
     /\ sentences' = sentences
     /\ call'.op # "update_position" => current_position' = current_position]_vars

\* the returned list was emptied after the position had moved, and the tracker
\* still has its two sentences
C11_Witness ==
  /\ call.op = "sentences.clear"
  /\ ret.list = <<>>
  /\ sentence_count = 2
  /\ current_position > 0

\* C12 as stated: for a valid index get_text_from_sentence returns the text
\* from that sentence's start to the end, which for index 0 is the whole
\* original text; for any other index it returns the empty string.
C12_SuffixWholeAtZero ==
  call.op = "get_text_from_sentence" =>
    IF 0 <= call.a /\ call.a < sentence_count
    THEN /\ ret = SuffixFrom(sentences[call.a + 1].start)
         /\ call.a = 0 => ret = text
    ELSE ret = <<>>

\* C12 amended: for a valid index the result is the suffix of the text that
\* begins at that sentence's start, so it has no character before that start;
\* for index 0 it is the text without its leading whitespace; for any other
\* index it is the empty string.
C12_SuffixFromStart ==
  call.op = "get_text_from_sentence" =>
    IF 0 <= call.a /\ call.a < sentence_count
    THEN /\ ret = SuffixFrom(sentences[call.a + 1].start)
         /\ call.a > 0 => Len(ret) <= Len(text) - sentences[call.a].end
         /\ call.a = 0 => ret = SuffixFrom(LeadingBlanks)
    ELSE ret = <<>>

\* the text from the second sentence on, shorter than the whole text
C12_Witness ==
  /\ call.op = "get_text_from_sentence"
  /\ call.a = 1
  /\ sentence_count = 2
  /\ ret # <<>>
  /\ Len(ret) < Len(text)

\* C13: a word-boundary event delivered while a tracker exists stores
\* max(0, start_offset) as the position, then issues highlight_sentence(idx) and
\* scroll_to_sentence(idx) in this order only when a sentence index was found,
\* and then exactly one highlight_word with the number of words before
\* start_offset, also when no sentence was found.
C13_WordBoundarySteps ==
  (call.op = "_on_tts_word_boundary" /\ tts_highlighter) =>
    LET idx == get_sentence_for_offset(text, sentences, call.a)
        word_idx == IF call.a <= 0 THEN 0
                    ELSE Cardinality(TokenStartsBefore(call.a))
    IN  /\ last_update = [called |-> TRUE, offset |-> call.a]
        /\ current_position = Max(0, call.a)
        /\ commands =
             IF idx \in 0..(sentence_count - 1)
             THEN <<Command("highlight_sentence", idx),
                    Command("scroll_to_sentence", idx),
                    Command("highlight_word", word_idx)>>
             ELSE <<Command("highlight_word", word_idx)>>

\* an event in the gap after the first sentence: no sentence found, and the
\* word highlight alone was issued
C13_Witness ==
  /\ call.op = "_on_tts_word_boundary"
  /\ call.a > 0
  /\ call.a < Len(text)
  /\ get_sentence_for_offset(text, sentences, call.a) = NOT_FOUND
  /\ commands = <<Command("highlight_word", 1)>>

\* C14: while the engine is paused, a word-boundary event delivered to the
\* window changes neither the tracker's position nor the highlighted sentence
\* or word, and issues no scroll.
C14_PausedIgnoresWordBoundary ==
  [][(is_paused /\ delivered'.sig = "word_boundary") =>
       /\ current_position' = current_position
       /\ current_sentence' = current_sentence
       /\ current_word' = current_word
       /\ ~Issued("scroll_to_sentence")']_vars

\* C15: a step in which the window handles the stopped, finished or error
\* signal issues clear_highlights; a step in which it handles the paused signal
\* issues no highlight command.
C15_LifecycleClearsHighlights ==
  /\ (Handled("stopped") \/ Handled("finished") \/ Handled("error")) =>
       Issued("clear_highlights")
  /\ Handled("paused") =>
       /\ ~Issued("clear_highlights")
       /\ ~Issued("highlight_sentence")
       /\ ~Issued("highlight_word")

\* C16: once the error signal of a worker has been delivered, the engine is
\* neither playing nor paused.
C16_ErrorResetsPlayback ==
  delivered.sig = "error" => ~is_playing /\ ~is_paused

\* C17: at most one worker is inside TTSWorker.run's provider call.
C17_SingleWorker ==
  Cardinality({w \in Workers : workers[w].pc = "synthesizing"}) <= 1

\* C18: a word-boundary, finished or error signal of a worker that has been
\* asked to stop changes no highlight, scroll position, toolbar state or status
\* message and shows no message box when it is delivered.
C18_StoppedSynthesisSilent ==
  [][(/\ delivered'.sig \in {"word_boundary", "finished", "error"}
      /\ workers[delivered'.w].should_stop) =>
       /\ UNCHANGED <<current_sentence, current_word, scroll_target, toolbar,
                      status>>
       /\ dialog' = ""]_vars

\* C19: jump_to_reading_position with a tracker and a playing engine, when a
\* sentence contains the current position, issues enable_auto_scroll and then
\* scroll_to_sentence for it, and that sentence is the one scrolled to.
C19_JumpEnablesBeforeScroll ==
  (call.op = "jump_to_reading_position" /\ tts_highlighter /\ is_playing) =>
    LET idx == get_sentence_for_offset(text, sentences, current_position)
    IN  idx >= 0 =>
          /\ commands = <<Command("enable_auto_scroll", 0),
                          Command("scroll_to_sentence", idx)>>
          /\ idx \in SentenceIds(document) => scroll_target = idx

C21_UnconfiguredPlayRefused ==
  (call.op = "play" /\ (~speech_key \/ ~synthesizer)) =>
    /\ ret = FALSE
    /\ signals = <<"error">>
    /\ worker = 0
    /\ \A w \in Workers : workers[w] = WorkerIdle
    /\ queue = <<>>
    /\ ~is_playing
    /\ ~is_paused

\* play was refused by an engine that has a key but no synthesizer
C21_Witness ==
  /\ call.op = "play"
  /\ speech_key
  /\ ~synthesizer
  /\ ret = FALSE
  /\ dialog = "TTS Error"

\* C22 as stated: the example text has exactly two sentences; sentence 0 is
\* "First sentence." with start 0 and end 16, sentence 1 is "Second sentence."
\* and starts at the offset of the "S" of "Second".
C22_ExampleEndsAt16 ==
  text = ExampleText =>
    /\ sentence_count = 2
    /\ sentences[1] = Sentence(FirstSentence, 0, 16, 0)
    /\ sentences[2].text = SecondSentence
    /\ sentences[2].start = 16
    /\ text[sentences[2].start + 1] = "S"

\* C22 amended: sentence 0 is "First sentence." with start 0 and end 15, the
\* offset right after its period, so that the space at offset 15 belongs to
\* no sentence; sentence 1 is "Second sentence.", starts at 16, the offset of
\* the "S" of "Second", and ends at 32, the length of the text.
C22_ExampleEndsAt15 ==
  text = ExampleText =>
    /\ sentence_count = 2
    /\ sentences[1] = Sentence(FirstSentence, 0, 15, 0)
    /\ sentences[2] = Sentence(SecondSentence, 16, 32, 1)
    /\ text[sentences[2].start + 1] = "S"
    /\ (call.op = "get_sentence_for_offset" /\ call.a = 15) => ret = NOT_FOUND
    /\ (call.op = "get_sentence_for_offset" /\ call.a = 16) => ret = 1

\* the example was queried at offset 15, the space after the first sentence,
\* which no sentence holds
C22_Witness ==
  /\ text = ExampleText
  /\ call.op = "get_sentence_for_offset"
  /\ call.a = 15
  /\ ret = NOT_FOUND
  /\ sentences[1].text = FirstSentence

\* C23: issuing a viewer command a second time changes nothing more, and a
\* highlight_sentence, highlight_word or scroll_to_sentence whose identifier
\* matches no marker of the document leaves the highlighted sentence, the
\* highlighted word, the scroll position and the auto-scroll flag as they were.
C23_UnknownIdentifierNoOp ==
  [][/\ \A i \in IssuedArgs("highlight_sentence")' :
          /\ highlightSentence(document', i) = current_sentence'
          /\ i \notin SentenceIds(document) => current_sentence' = current_sentence
     /\ \A o \in IssuedArgs("highlight_word")' :
          /\ highlightWord(document', o) = current_word'
          /\ o \notin WordIds(document) => current_word' = current_word
     /\ \A i \in IssuedArgs("scroll_to_sentence")' :
          /\ scrollToSentence(document', autoScrollEnabled', scroll_target', i)
               = scroll_target'
          /\ i \notin SentenceIds(document) => scroll_target' = scroll_target
     /\ (IssuedArgs("highlight_sentence")' \cup IssuedArgs("highlight_word")'
           \cup IssuedArgs("scroll_to_sentence")') # {} =>
          autoScrollEnabled' = autoScrollEnabled]_vars

\* C24: the playback state changes only from not playing (idle or a terminal
\* state) to Playing, and then only while a play call's worker is the engine's
\* worker; from Playing to Paused or to a terminal state; and from Paused to
\* Playing: Paused is left only by resuming.
C24_PlaybackTransitions ==
  [][/\ Paused => (Paused' \/ Playing')
     /\ NotPlaying => (NotPlaying' \/ (Playing' /\ worker' # 0))
     /\ Playing => (Playing' \/ Paused' \/ NotPlaying')]_vars

\* C25: in an annotated document the data-sentence values are 0, 1, 2, ... in
\* document order, and each word marker's data-word is the sum of len(word) +
\* len(trailing whitespace) over the words wrapped before it, so the data-word
\* values increase strictly and no identifier repeats, wherever the tags fall.
C25_RunningCounters ==
  document # <<>> =>
    /\ \A k \in 1..Cardinality(MarkerPositions("sentence")) :
         document[NthMarker("sentence", k)].n = k - 1
    /\ \A k \in 1..Cardinality(MarkerPositions("word")) :
         /\ document[NthMarker("word", k)].n = AdvanceBefore(k - 1)
         /\ k > 1 => document[NthMarker("word", k - 1)].n
                       < document[NthMarker("word", k)].n
    /\ Cardinality(SentenceIds(document)) = Cardinality(MarkerPositions("sentence"))
    /\ Cardinality(WordIds(document)) = Cardinality(MarkerPositions("word"))

\* two sentences and two words with a tag between them: the second word is
\* numbered on from the first, whose trailing whitespace counts
C25_Witness ==
  /\ call.op = "_add_tts_spans"
  /\ Cardinality(MarkerPositions("sentence")) = 2
  /\ Cardinality(MarkerPositions("word")) = 2
  /\ \E t \in MarkerPositions("tag") :
       NthMarker("word", 1) < t /\ t < NthMarker("word", 2)
  /\ document[NthMarker("word", 2)].n = 2
  /\ document[NthMarker("word", 1) + 3].k = "text"
  /\ document[NthMarker("sentence", 2)].n = 1

\* C26: deleting the inserted span tags from the output of _add_tts_spans
\* gives back the input character for character, and an input that is empty or
\* all whitespace comes back without any marker.
C26_OnlyInsertsMarkers ==
  call.op = "_add_tts_spans" =>
    /\ WithoutMarkers(ret) = call.a
    /\ strip(call.a) = <<>> =>
         MarkerPositions("sentence") \cup MarkerPositions("word") = {}

\* C27: while the engine has no worker, that is from the return of stop() to
\* the next play(), is_playing is False, whatever signals of the stopped
\* worker are delivered meanwhile.
C27_StoppedStaysStopped ==
  worker = 0 => ~is_playing

\* C28: a word-boundary event the window handles while the engine holds the
\* worker of the latest play session, whose _tts_play built the tracker, was
\* produced by that worker's synthesis and not by an earlier one.
C28_EventsOfOwnSession ==
  (delivered.sig = "word_boundary" /\ tts_highlighter /\ worker # 0) =>
    delivered.w = worker

\* C29: is_paused implies is_playing before and after every step; a pause()
\* call made unless the engine is playing and not paused, and a resume() call
\* made unless it is paused, change nothing of the engine and emit nothing.
C29_PausedImpliesPlaying ==
  [][/\ is_paused => is_playing
     /\ is_paused' => is_playing'
     /\ (call'.op = "pause" /\ ~(is_playing /\ ~is_paused)) =>
          /\ UNCHANGED <<engineVars, toolbar, status>>
          /\ signals' = <<>>
     /\ (call'.op = "resume" /\ ~is_paused) =>
          /\ UNCHANGED <<engineVars, toolbar, status>>
          /\ signals' = <<>>]_vars

\* pause() was called on an engine already paused and emitted nothing
C29_Witness ==
  /\ call.op = "pause"
  /\ is_playing
  /\ is_paused
  /\ signals = <<>>

\* offsets of the text, 0-based
InRange(o) == 0 <= o /\ o < Len(text)

\* offset o lies before the start of some sentence: before the first sentence
\* or between two sentences
BeforeSomeSentence(o) == \E k \in 1..Len(sentences) : o < sentences[k].start

\* offset o lies at or after the end of the last sentence
AfterLastSentence(o) ==
  sentences # <<>> /\ sentences[Len(sentences)].end <= o

\* C30 as stated: at an in-range offset holding a non-whitespace character
\* exactly one sentence contains the offset and get_sentence_for_offset finds
\* it; an in-range offset yields NOT_FOUND only on whitespace between sentences
\* or before the first sentence; the index found does not decrease as the
\* offset grows.
C30_NotFoundOnlyBeforeSentence ==
  (call.op = "get_sentence_for_offset" /\ InRange(call.a)) =>
    /\ ~IsBlank(call.a + 1) =>
         /\ Cardinality(Containing(call.a)) = 1
         /\ ret # NOT_FOUND
    /\ (ret = NOT_FOUND /\ sentences # <<>>) =>
         /\ IsBlank(call.a + 1)
         /\ BeforeSomeSentence(call.a)
    /\ \A p \in call.a..(Len(text) - 1) :
         (ret # NOT_FOUND
            /\ get_sentence_for_offset(text, sentences, p) # NOT_FOUND) =>
           ret <= get_sentence_for_offset(text, sentences, p)

\* C30 amended: an in-range offset yields NOT_FOUND exactly when no sentence
\* contains it, which happens only on whitespace: before the first sentence,
\* between two sentences, or after the terminator of the last sentence.
C30_NotFoundOnlyOnWhitespace ==
  (call.op = "get_sentence_for_offset" /\ InRange(call.a)) =>
    /\ ~IsBlank(call.a + 1) =>
         /\ Cardinality(Containing(call.a)) = 1
         /\ ret # NOT_FOUND
    /\ ret = NOT_FOUND <=> Containing(call.a) = {}
    /\ (ret = NOT_FOUND /\ sentences # <<>>) =>
         /\ IsBlank(call.a + 1)
         /\ BeforeSomeSentence(call.a) \/ AfterLastSentence(call.a)
    /\ \A p \in call.a..(Len(text) - 1) :
         (ret # NOT_FOUND
            /\ get_sentence_for_offset(text, sentences, p) # NOT_FOUND) =>
           ret <= get_sentence_for_offset(text, sentences, p)

\* whitespace after the terminator of the last sentence, inside the text, was
\* queried and no sentence was found
C30_Witness ==
  /\ call.op = "get_sentence_for_offset"
  /\ InRange(call.a)
  /\ AfterLastSentence(call.a)
  /\ ~BeforeSomeSentence(call.a)
  /\ ret = NOT_FOUND

TypeOK ==
  /\ text \in StringsUpTo(MarkdownAlphabet, MaxLen)
  /\ current_position \in Nat
====
